---- MODULE Spec2Model ----
(***************************************************************************)
(* Model of the quiz-game server: one room, its players and questions in   *)
(* the document store, the per-room game timers and the socket membership  *)
(* of every user; of the other rooms in the store, their codes.  Services  *)
(* are operators from a world (the persisted and in-memory state they      *)
(* touch) to a result; socket handlers are actions.                        *)
(*                                                                         *)
(* Conventions.  JavaScript array indices are 0-based: index i of an array *)
(* is element i+1 of the sequence that models it.  The uid null is NULL.   *)
(* A string of decimal digits is the pair <<"s", n>> of the number it      *)
(* spells, so that a number and the string made from it are different      *)
(* values, as they are in the program.  A room code is the sequence of its *)
(* characters.                                                             *)
(*                                                                         *)
(* Scope.  Each handler is one atomic step.  The play-again vote starts a  *)
(* game through startGame with empty settings, which StartGame covers;     *)
(* chat is left out.  The callback of scheduleGameTimeout has no action:   *)
(* a timer is armed only after getQuestion has returned a question, and    *)
(* TimersNeverArmed shows that no reachable state has one.                 *)
(***************************************************************************)
EXTENDS Integers, Sequences, FiniteSets, TLC

\* ---------------------------------------------------------------- bounds
NumUsers == 3
NumJoiners == 14
MaxQuestionsPerPlayer == 1
NumAnswerChoices == 2
NumShuffles == 1
NumQuestionIds == 2
MaxCorrectSubmits == 2
NumStarters == 2
MaxPatchFields == 2
MaxOtherRooms == 2

\* ------------------------------------------------------ program constants
MAX_PLAYERS_ROLE_COUNT == 8
\* The players' cap where the spectators' cap belongs.
PlayersCapForSpectators == MAX_PLAYERS_ROLE_COUNT
MAX_SPECTATORS_COUNT == 5
MAX_TOTAL_USERS_IN_ROOM == MAX_PLAYERS_ROLE_COUNT + MAX_SPECTATORS_COUNT
DEFAULT_QUESTIONS_PER_PLAYER == 5
DEFAULT_TURN_TIMEOUT_SEC == 30
DEFAULT_STEAL_TIMEOUT_SEC == 15
DEFAULT_ALLOW_STEAL == TRUE
DEFAULT_BONUS_FOR_STEAL == 1

Users == 1..NumUsers
JoinUsers == 1..NumJoiners
AllUids == 1..(IF NumUsers > NumJoiners THEN NumUsers ELSE NumJoiners)
NULL == 0

\* ------------------------------------------------------------ data shapes
NoSteal == [stealerUid |-> NULL, questionDbIndex |-> -1]
NoTimer == [uid |-> NULL, qid |-> <<"s", -1>>]
NoTimers == [turn |-> NoTimer, steal |-> NoTimer]
NoPlayer == [exists |-> FALSE, joinOrder |-> 0, score |-> 0, online |-> FALSE, role |-> "none"]

StringOf(n) == <<"s", n>>

createRoomSettings ==
  [questionsPerPlayer |-> 5, turnTimeoutSec |-> 30, stealTimeoutSec |-> 15,
   allowSteal |-> TRUE, bonusForSteal |-> 1]

\* generateRoomCode: one character per random byte, the byte modulo the
\* number of allowed characters.
CodeLength == 6
CodeChars ==
  <<"A", "B", "C", "D", "E", "F", "G", "H", "J", "K", "L", "M", "N", "P", "Q", "R",
    "S", "T", "U", "V", "W", "X", "Y", "Z", "2", "3", "4", "5", "6", "7", "8", "9">>

generateRoomCode(bytes) ==
  [i \in 1..CodeLength |-> CodeChars[(bytes[i] % Len(CodeChars)) + 1]]

createRoomData(uid, code) ==
  [exists |-> TRUE, code |-> code, hostUid |-> uid, state |-> "waiting", questionCount |-> 0,
   currentQuestionDbIndex |-> 0, currentTurnUid |-> NULL, activeTurnOrderUids |-> <<>>,
   currentPlayerIndexInOrder |-> -1, currentStealAttempt |-> NoSteal,
   gameSettings |-> createRoomSettings]

hostPlayerData ==
  [exists |-> TRUE, joinOrder |-> 1, score |-> 0, online |-> TRUE, role |-> "player"]

\* ---------------------------------------------------------- pure helpers
IndexOf(seq, x) ==
  IF \E i \in 1..Len(seq) : seq[i] = x
  THEN (CHOOSE i \in 1..Len(seq) : seq[i] = x /\ \A j \in 1..(i - 1) : seq[j] # x) - 1
  ELSE -1

MinOf(S) == CHOOSE x \in S : \A y \in S : x <= y

RECURSIVE FilterOut(_, _)
FilterOut(seq, x) ==
  IF seq = <<>> THEN <<>>
  ELSE IF Head(seq) = x THEN FilterOut(Tail(seq), x)
  ELSE <<Head(seq)>> \o FilterOut(Tail(seq), x)

IsOnlinePlayer(p) == p.exists /\ p.online /\ p.role = "player"

Members(players) == {u \in AllUids : players[u].exists}

\* Position of u in the list ordered by joinOrder ascending; equal joinOrder
\* values are ordered by document id.
Rank(players, u) ==
  Cardinality({v \in Members(players) :
      \/ players[v].joinOrder < players[u].joinOrder
      \/ players[v].joinOrder = players[u].joinOrder /\ v < u})

getPlayersByRoomSorted(players) ==
  [i \in 1..Cardinality(Members(players)) |->
      CHOOSE u \in Members(players) : Rank(players, u) = i - 1]

\* A selection that keeps every element.
SelectAll(seq, players, onlyOnlinePlayers) == seq

RECURSIVE SelectSeq2(_, _, _)
SelectSeq2(seq, players, onlyOnlinePlayers) ==
  IF seq = <<>> THEN <<>>
  ELSE IF onlyOnlinePlayers => IsOnlinePlayer(players[Head(seq)])
       THEN <<Head(seq)>> \o SelectSeq2(Tail(seq), players, onlyOnlinePlayers)
       ELSE SelectSeq2(Tail(seq), players, onlyOnlinePlayers)

\* getQuestion(roomId, questionId): rejects a falsy questionId before it
\* reads the store.  Every caller passes the numeric index, and the number 0
\* is falsy.
getQuestion(questions, questionId) ==
  IF questionId = 0
  THEN [thrown |-> TRUE, found |-> FALSE, id |-> StringOf(-1), correctIndex |-> -1]
  ELSE IF questionId + 1 <= Len(questions)
       THEN [thrown |-> FALSE, found |-> TRUE, id |-> StringOf(questionId),
             correctIndex |-> questions[questionId + 1]]
       ELSE [thrown |-> FALSE, found |-> FALSE, id |-> StringOf(-1), correctIndex |-> -1]

\* A search that starts at the head of the order, wherever the turn is.
findFirstOnlinePlayerInOrder(players, roomData, startAfterUid) ==
  LET order == roomData.activeTurnOrderUids
      hits == {i \in 1..Len(order) : IsOnlinePlayer(players[order[i]])}
  IN IF hits = {}
     THEN [nextPlayerUid |-> NULL, nextPlayerIndexInOrder |-> -1]
     ELSE [nextPlayerUid |-> order[MinOf(hits)], nextPlayerIndexInOrder |-> MinOf(hits) - 1]

findNextOnlinePlayerInFixedOrder(players, roomData, startAfterUid) ==
  LET order == roomData.activeTurnOrderUids
      n == Len(order)
      at == IndexOf(order, startAfterUid)
      startIndex == IF at # -1 THEN at
                    ELSE IF roomData.currentPlayerIndexInOrder # -1
                         THEN roomData.currentPlayerIndexInOrder
                         ELSE -1
      hits == {i \in 1..n : IsOnlinePlayer(players[order[((startIndex + i) % n) + 1]])}
  IN IF n = 0 \/ hits = {}
     THEN [nextPlayerUid |-> NULL, nextPlayerIndexInOrder |-> -1]
     ELSE LET idx == (startIndex + MinOf(hits)) % n
          IN [nextPlayerUid |-> order[idx + 1], nextPlayerIndexInOrder |-> idx]

\* ------------------------------------------------------- service results
Out(w, kind, phase) == [w |-> w, kind |-> kind, phase |-> phase]

\* The three-field "ended" write used where the game is cut short.
EndedShort(room) ==
  [room EXCEPT !.state = "ended", !.currentTurnUid = NULL, !.currentPlayerIndexInOrder = -1]

clearAllTimersForRoom(w) == [w EXCEPT !.timers = NoTimers]

setupNextTurnOrEndGame(w, newCurrentTurnPlayerUid, newPlayerIndexInOrder, newQuestionDbIndex) ==
  LET roomData == w.room IN
  IF ~roomData.exists THEN Out(w, "error", "none")
  ELSE IF newQuestionDbIndex >= roomData.questionCount
  THEN Out([clearAllTimersForRoom(w) EXCEPT !.room =
              [roomData EXCEPT !.state = "ended", !.currentTurnUid = NULL,
                               !.currentQuestionDbIndex = newQuestionDbIndex,
                               !.currentPlayerIndexInOrder = -1,
                               !.currentStealAttempt = NoSteal]],
           "ok", "endGame")
  ELSE LET nextQuestion == getQuestion(w.questions, newQuestionDbIndex) IN
    IF nextQuestion.thrown THEN Out(w, "error", "none")
    ELSE IF ~nextQuestion.found
    THEN Out([clearAllTimersForRoom(w) EXCEPT !.room = EndedShort(roomData)], "ok", "endGame")
    ELSE LET valid == IsOnlinePlayer(w.players[newCurrentTurnPlayerUid])
             sub == findNextOnlinePlayerInFixedOrder(w.players, roomData, newCurrentTurnPlayerUid)
             turnUid == IF valid THEN newCurrentTurnPlayerUid ELSE sub.nextPlayerUid
             turnIdx == IF valid THEN newPlayerIndexInOrder ELSE sub.nextPlayerIndexInOrder
         IN IF ~valid /\ sub.nextPlayerUid = NULL
            THEN Out([clearAllTimersForRoom(w) EXCEPT !.room = EndedShort(roomData)],
                     "ok", "endGame")
            ELSE Out([w EXCEPT !.room = [roomData EXCEPT
                                  !.currentTurnUid = turnUid,
                                  !.currentPlayerIndexInOrder = turnIdx,
                                  !.currentQuestionDbIndex = newQuestionDbIndex,
                                  !.currentStealAttempt = NoSteal],
                               !.timers.turn = [uid |-> turnUid, qid |-> nextQuestion.id]],
                     "ok", "nextTurn")

\* "find the next player, end the game if there is none, else set up the
\* next turn", as submitAnswer does after a correct answer, with steal
\* disabled, and when no distinct stealer exists.
advanceToNextPlayer(w, roomData, uid) ==
  LET next == findNextOnlinePlayerInFixedOrder(w.players, roomData, uid) IN
  IF next.nextPlayerUid = NULL
  THEN Out([clearAllTimersForRoom(w) EXCEPT !.room = EndedShort(w.room)], "ok", "endGame")
  ELSE setupNextTurnOrEndGame(w, next.nextPlayerUid, next.nextPlayerIndexInOrder,
                              roomData.currentQuestionDbIndex + 1)

\* incrementPlayerScore: an update of a document that does not exist fails.
incrementPlayerScore(w, uid, amount) ==
  [w EXCEPT !.players[uid].score = @ + amount]

\* A variant that credits the point before it looks at the room.
submitAnswerScoreFirst(w, uid, questionId, answerIndex, isTimeout) ==
  Out(IF w.players[uid].exists /\ ~isTimeout THEN incrementPlayerScore(w, uid, 1) ELSE w,
      "ok", "none")

submitAnswer(w, uid, questionId, answerIndex, isTimeout) ==
  LET roomData == w.room IN
  IF ~roomData.exists \/ roomData.state # "active" THEN Out(w, "noAction", "none")
  ELSE IF roomData.currentTurnUid # uid
  THEN Out(w, IF isTimeout THEN "noAction" ELSE "error", "none")
  ELSE LET currentQuestion == getQuestion(w.questions, roomData.currentQuestionDbIndex) IN
    IF currentQuestion.thrown THEN Out(w, "error", "none")
    ELSE IF ~currentQuestion.found \/ currentQuestion.id # questionId
    THEN Out(w, IF isTimeout THEN "noAction" ELSE "error", "none")
    ELSE LET w1 == [w EXCEPT !.timers.turn = NoTimer]
             isCorrect == ~isTimeout /\ currentQuestion.correctIndex = answerIndex
         IN IF isCorrect /\ ~w1.players[uid].exists THEN Out(w1, "error", "none")
            ELSE LET w2 == IF isCorrect THEN incrementPlayerScore(w1, uid, 1) ELSE w1
                     gameSettings == roomData.gameSettings
                     stealer == findNextOnlinePlayerInFixedOrder(w2.players, roomData, uid)
                 IN IF isCorrect \/ ~gameSettings.allowSteal
                    THEN advanceToNextPlayer(w2, roomData, uid)
                    ELSE IF stealer.nextPlayerUid # NULL /\ stealer.nextPlayerUid # uid
                    THEN Out([w2 EXCEPT
                                !.room.currentStealAttempt =
                                   [stealerUid |-> stealer.nextPlayerUid,
                                    questionDbIndex |-> roomData.currentQuestionDbIndex],
                                !.timers.steal =
                                   [uid |-> stealer.nextPlayerUid, qid |-> currentQuestion.id]],
                             "ok", "steal")
                    ELSE advanceToNextPlayer(w2, roomData, uid)

handleSteal(w, uid, questionId, answerIndex, isTimeout) ==
  LET roomData == w.room
      gameSettings == roomData.gameSettings
      attempt == roomData.currentStealAttempt
  IN
  IF ~roomData.exists \/ roomData.state # "active" THEN Out(w, "noAction", "none")
  ELSE IF attempt = NoSteal \/ attempt.stealerUid # uid
          \/ roomData.currentQuestionDbIndex # attempt.questionDbIndex
  THEN Out(w, IF isTimeout /\ (attempt = NoSteal \/ attempt.stealerUid # uid)
              THEN "noAction" ELSE "error", "none")
  ELSE LET currentQuestion == getQuestion(w.questions, roomData.currentQuestionDbIndex) IN
    IF currentQuestion.thrown \/ ~currentQuestion.found \/ currentQuestion.id # questionId
    THEN Out(w, "error", "none")
    ELSE LET w1 == [w EXCEPT !.timers.steal = NoTimer]
             isCorrect == ~isTimeout /\ currentQuestion.correctIndex = answerIndex
             pointsForSteal == 1 + gameSettings.bonusForSteal
         IN IF isCorrect /\ ~w1.players[uid].exists THEN Out(w1, "error", "none")
            ELSE LET w2 == IF isCorrect THEN incrementPlayerScore(w1, uid, pointsForSteal)
                           ELSE w1
                     stealerIndexInOrder == IndexOf(roomData.activeTurnOrderUids, uid)
                 IN IF stealerIndexInOrder = -1
                    THEN Out([clearAllTimersForRoom(w2) EXCEPT !.room = EndedShort(w2.room)],
                             "ok", "endGame")
                    ELSE setupNextTurnOrEndGame(w2, uid, stealerIndexInOrder,
                                                roomData.currentQuestionDbIndex + 1)

\* What the submitAnswer and submitSteal handlers emit to the whole room for
\* the result r of the service call: nothing when the service took no
\* action, gameError when it threw, the result events otherwise.
PhaseEvents(phase) ==
  IF phase = "steal" THEN {"stealOpportunity"}
  ELSE IF phase = "nextTurn" THEN {"nextTurn"}
  ELSE IF phase = "endGame" THEN {"gameEnded"}
  ELSE {}

submitAnswerEvents(r) ==
  IF r.kind = "noAction" THEN {}
  ELSE IF r.kind = "error" THEN {"gameError"}
  ELSE {"answerResult", "scoreUpdate"} \cup PhaseEvents(r.phase)

submitStealEvents(r) ==
  IF r.kind = "noAction" THEN {}
  ELSE IF r.kind = "error" THEN {"gameError"}
  ELSE {"stealResult", "scoreUpdate"} \cup (PhaseEvents(r.phase) \ {"stealOpportunity"})

\* The callback of the timer that scheduleGameTimeout armed for the phase
\* ("turn" or "steal"): it drops a timer that is stale, submits the timeout
\* otherwise and, when that throws, moves on to the next question or ends the
\* game.
timeoutFired(w, phase) ==
  LET timer == w.timers[phase]
      w0 == [w EXCEPT !.timers[phase] = NoTimer]
      roomData == w.room
      expectedUidForTimeout ==
        IF phase = "turn" THEN roomData.currentTurnUid
        ELSE roomData.currentStealAttempt.stealerUid
      currentQuestionForPhase == getQuestion(w.questions, roomData.currentQuestionDbIndex)
      r == IF phase = "turn"
           THEN submitAnswer(w0, timer.uid, timer.qid, -1, TRUE)
           ELSE handleSteal(w0, timer.uid, timer.qid, -1, TRUE)
      next == IF phase = "steal"
              THEN [nextPlayerUid |-> timer.uid,
                    nextPlayerIndexInOrder |-> IndexOf(roomData.activeTurnOrderUids, timer.uid)]
              ELSE findNextOnlinePlayerInFixedOrder(r.w.players, roomData, timer.uid)
  IN
  IF ~roomData.exists \/ roomData.state # "active" THEN w0
  ELSE IF \/ currentQuestionForPhase.thrown \/ ~currentQuestionForPhase.found
          \/ currentQuestionForPhase.id # timer.qid
          \/ timer.uid # expectedUidForTimeout
  THEN w0
  ELSE IF r.kind # "error" THEN r.w
  ELSE IF next.nextPlayerUid # NULL /\ next.nextPlayerIndexInOrder # -1
  THEN setupNextTurnOrEndGame(r.w, next.nextPlayerUid, next.nextPlayerIndexInOrder,
                              roomData.currentQuestionDbIndex + 1).w
  ELSE [clearAllTimersForRoom(r.w) EXCEPT !.room = EndedShort(r.w.room)]

\* A variant that moves the index back without looking at where it stands.
AdjustedPlayerIndexUnfloored(order, currentPlayerIndexInOrder, uid) ==
  IF IndexOf(order, uid) # -1 /\ IndexOf(order, uid) <= currentPlayerIndexInOrder
  THEN currentPlayerIndexInOrder - 1
  ELSE currentPlayerIndexInOrder

\* The index of the current player after uid is taken out of the turn order.
AdjustedPlayerIndex(order, currentPlayerIndexInOrder, uid) ==
  LET oldIndexOfLeavingPlayer == IndexOf(order, uid) IN
  IF oldIndexOfLeavingPlayer # -1
     /\ oldIndexOfLeavingPlayer <= currentPlayerIndexInOrder
     /\ currentPlayerIndexInOrder > 0
  THEN currentPlayerIndexInOrder - 1
  ELSE currentPlayerIndexInOrder

\* An "ended" write that sets the state and nothing else.
EndedStateOnly(room) == [room EXCEPT !.state = "ended"]

\* The "ended" write of handlePlayerLeave when fewer than two online players
\* are left in the trimmed order.
EndedTooFewPlayers(room) ==
  [room EXCEPT !.state = "ended", !.currentTurnUid = NULL,
               !.currentStealAttempt = NoSteal, !.currentPlayerIndexInOrder = -1]

handlePlayerLeave(w, uid) ==
  IF ~w.room.exists \/ w.room.state # "active" THEN Out(w, "ok", "none")
  ELSE
  LET playerLeaving == w.players[uid]
      w1 == IF playerLeaving.exists /\ playerLeaving.online
            THEN [w EXCEPT !.players[uid].online = FALSE] ELSE w
      roomData == w1.room
      newActiveTurnOrderUids == FilterOut(roomData.activeTurnOrderUids, uid)
      removed == Len(newActiveTurnOrderUids) < Len(roomData.activeTurnOrderUids)
      newPlayerIndexInOrder ==
        IF removed
        THEN AdjustedPlayerIndex(roomData.activeTurnOrderUids,
                                 roomData.currentPlayerIndexInOrder, uid)
        ELSE roomData.currentPlayerIndexInOrder
      w2 == IF removed
            THEN [w1 EXCEPT !.room.activeTurnOrderUids = newActiveTurnOrderUids,
                            !.room.currentPlayerIndexInOrder = newPlayerIndexInOrder]
            ELSE w1
      onlinePlayerRoleCountInNewOrder ==
        Cardinality({i \in 1..Len(newActiveTurnOrderUids) :
                        IsOnlinePlayer(w2.players[newActiveTurnOrderUids[i]])})
      currentQuestion == getQuestion(w2.questions, w2.room.currentQuestionDbIndex)
  IN
  IF onlinePlayerRoleCountInNewOrder < 2
  THEN Out([clearAllTimersForRoom(w2) EXCEPT !.room = EndedTooFewPlayers(w2.room)],
           "ok", "endGame")
  ELSE IF currentQuestion.thrown THEN Out(w2, "error", "none")
  ELSE IF ~currentQuestion.found
  THEN Out([w2 EXCEPT !.room = [w2.room EXCEPT !.state = "ended", !.currentTurnUid = NULL,
                                               !.currentStealAttempt = NoSteal]],
           "ok", "endGame")
  ELSE IF w2.room.currentTurnUid = uid
  THEN LET r == submitAnswer([w2 EXCEPT !.timers.turn = NoTimer], uid,
                             currentQuestion.id, -1, TRUE)
       IN Out(r.w, IF r.kind = "error" THEN "error" ELSE "ok", r.phase)
  ELSE IF w2.room.currentStealAttempt # NoSteal
          /\ w2.room.currentStealAttempt.stealerUid = uid
  THEN LET r == handleSteal([w2 EXCEPT !.timers.steal = NoTimer], uid,
                            currentQuestion.id, -1, TRUE)
       IN Out(r.w, IF r.kind = "error" THEN "error" ELSE "ok", r.phase)
  ELSE Out(w2, "ok", "none")

\* cleanupOnDisconnect for one room; whatever is thrown inside is caught and
\* logged, the writes made before it stay.
cleanupOnDisconnect(w, uid) ==
  IF ~(w.room.exists /\ w.room.state = "active") THEN w
  ELSE IF ~(w.players[uid].exists /\ w.players[uid].online) THEN w
  ELSE
  LET w1 == [w EXCEPT !.players[uid].online = FALSE]
      roomData == w.room
      currentQuestion == getQuestion(w1.questions, roomData.currentQuestionDbIndex)
      afterTurn == findNextOnlinePlayerInFixedOrder(w1.players, roomData, uid)
      afterStealTurn ==
        findNextOnlinePlayerInFixedOrder(w1.players, roomData, roomData.currentTurnUid)
  IN
  IF currentQuestion.thrown THEN w1
  ELSE IF roomData.currentTurnUid = uid
  THEN LET w2 == [w1 EXCEPT !.timers.turn = NoTimer] IN
       IF currentQuestion.found
       THEN submitAnswer(w2, uid, currentQuestion.id, -1, TRUE).w
       ELSE IF afterTurn.nextPlayerUid # NULL
            THEN setupNextTurnOrEndGame(w2, afterTurn.nextPlayerUid,
                                        afterTurn.nextPlayerIndexInOrder,
                                        roomData.currentQuestionDbIndex + 1).w
            ELSE w2
  ELSE IF roomData.currentStealAttempt # NoSteal
          /\ roomData.currentStealAttempt.stealerUid = uid
  THEN LET w2 == [w1 EXCEPT !.timers.steal = NoTimer] IN
       IF currentQuestion.found
       THEN handleSteal(w2, uid, currentQuestion.id, -1, TRUE).w
       ELSE IF afterStealTurn.nextPlayerUid # NULL
            THEN setupNextTurnOrEndGame(w2, afterStealTurn.nextPlayerUid,
                                        afterStealTurn.nextPlayerIndexInOrder,
                                        roomData.currentQuestionDbIndex + 1).w
            ELSE w2
  ELSE w1

\* ----------------------------------------------------------- room service
NoRoom ==
  [exists |-> FALSE, code |-> <<>>, hostUid |-> NULL, state |-> "none", questionCount |-> 0,
   currentQuestionDbIndex |-> 0, currentTurnUid |-> NULL, activeTurnOrderUids |-> <<>>,
   currentPlayerIndexInOrder |-> -1, currentStealAttempt |-> NoSteal,
   gameSettings |-> createRoomSettings]

deleteRoom(w) == [w EXCEPT !.room = NoRoom]

\* createRoom for a further room: of the rooms other than the one followed
\* here, the store keeps the codes.
createRoom(w, uid, bytes) ==
  [w EXCEPT !.otherRooms = Append(@, generateRoomCode(bytes))]

CountRole(players, role) == Cardinality({u \in Members(players) : players[u].role = role})

\* A search that returns the last uid in S instead of the first.
FindLast(seq, S) ==
  IF \E i \in 1..Len(seq) : seq[i] \in S
  THEN seq[CHOOSE i \in 1..Len(seq) : seq[i] \in S /\ \A j \in (i + 1)..Len(seq) : seq[j] \notin S]
  ELSE NULL

\* Array.prototype.find over the sorted list: the first uid in S, or NULL.
FindFirst(seq, S) ==
  IF \E i \in 1..Len(seq) : seq[i] \in S
  THEN seq[MinOf({i \in 1..Len(seq) : seq[i] \in S})]
  ELSE NULL

JsOr(a, b) == IF a # NULL THEN a ELSE b

leaveRoom(w, uid) ==
  IF ~w.room.exists
  THEN [w |-> w, hostChanged |-> FALSE, newHostUid |-> NULL, roomDeleted |-> FALSE]
  ELSE
  LET roomData == w.room
      w1 == [w EXCEPT !.players[uid] = NoPlayer]
      ps == w1.players
      remainingPlayers == getPlayersByRoomSorted(ps)
      nextHostCandidate ==
        JsOr(FindFirst(remainingPlayers,
                       {u \in Members(ps) : ps[u].online /\ ps[u].role = "player"}),
        JsOr(FindFirst(remainingPlayers, {u \in Members(ps) : ps[u].role = "player"}),
        JsOr(FindFirst(remainingPlayers,
                       {u \in Members(ps) : ps[u].online /\ ps[u].role = "spectator"}),
             remainingPlayers[1])))
      w2 == [w1 EXCEPT !.room.hostUid = nextHostCandidate]
      w3 == IF ps[nextHostCandidate].role = "spectator"
            THEN [w2 EXCEPT !.players[nextHostCandidate].role = "player"] ELSE w2
  IN
  IF Len(remainingPlayers) = 0
  THEN [w |-> deleteRoom(w1), hostChanged |-> FALSE, newHostUid |-> NULL, roomDeleted |-> TRUE]
  ELSE IF roomData.hostUid = uid
  THEN [w |-> w3, hostChanged |-> TRUE, newHostUid |-> nextHostCandidate,
        roomDeleted |-> FALSE]
  ELSE [w |-> w1, hostChanged |-> FALSE, newHostUid |-> NULL, roomDeleted |-> FALSE]

\* joinRoom: the lookup by code and the "ended" test, then one transaction
\* over the room and its players.
joinRoom(w, uid) ==
  LET roomData == w.room
      ps == w.players
      existing == ps[uid]
      rejoinRole == IF roomData.state = "active" /\ existing.role # "player"
                    THEN "spectator" ELSE existing.role
      currentTotalUsers == Cardinality(Members(ps))
      currentPlayersWithPlayerRole == CountRole(ps, "player")
      currentSpectators == CountRole(ps, "spectator")
      wanted == IF roomData.state = "active" THEN "spectator" ELSE "player"
      full ==
        \/ currentTotalUsers >= MAX_TOTAL_USERS_IN_ROOM
        \/ wanted = "player" /\ currentPlayersWithPlayerRole >= MAX_PLAYERS_ROLE_COUNT
             /\ ~(roomData.state = "waiting" /\ currentSpectators < MAX_SPECTATORS_COUNT)
        \/ wanted = "spectator" /\ currentSpectators >= MAX_SPECTATORS_COUNT
      playerRole ==
        IF wanted = "player" /\ currentPlayersWithPlayerRole >= MAX_PLAYERS_ROLE_COUNT
        THEN "spectator" ELSE wanted
      newPlayerData == [exists |-> TRUE, joinOrder |-> currentTotalUsers + 1, score |-> 0,
                        online |-> TRUE, role |-> playerRole]
  IN
  IF ~roomData.exists \/ roomData.state = "ended" THEN Out(w, "error", "none")
  ELSE IF existing.exists
  THEN Out([w EXCEPT !.players[uid].online = TRUE, !.players[uid].role = rejoinRole],
           "ok", rejoinRole)
  ELSE IF full THEN Out(w, "error", "full")
  ELSE Out([w EXCEPT !.players[uid] = newPlayerData], "ok", playerRole)

\* ------------------------------------------------ game service, continued
\* A value a client puts in a settings field: a decimal number, given in
\* tenths, or something parseInt cannot read (nan).
NaN == [nan |-> TRUE, n |-> 0]

\* parseInt(value, 10): the integer part of a number, NaN for the rest.
parseInt(value) ==
  IF value.nan THEN NaN
  ELSE [nan |-> FALSE,
        n |-> IF value.tenths >= 0 THEN value.tenths \div 10 ELSE -((-value.tenths) \div 10)]

\* x >= lo && x <= hi: false when x is NaN.
Between(x, lo, hi) == ~x.nan /\ x.n >= lo /\ x.n <= hi

Supplied(field) == field # {}
ValueOf(field) == CHOOSE value \in field : TRUE

\* An update that stores every supplied field as parsed, without the range tests.
updateGameSettingsUnchecked(w, hostUid, settingsToUpdate) ==
  LET roomData == w.room
      currentSettings == roomData.gameSettings
      stored(field, current) ==
        IF Supplied(field) /\ ~parseInt(ValueOf(field)).nan
        THEN parseInt(ValueOf(field)).n ELSE current
      validatedNewSettings ==
        [questionsPerPlayer |->
           stored(settingsToUpdate.questionsPerPlayer, currentSettings.questionsPerPlayer),
         turnTimeoutSec |->
           stored(settingsToUpdate.turnTimeoutSec, currentSettings.turnTimeoutSec),
         stealTimeoutSec |->
           stored(settingsToUpdate.stealTimeoutSec, currentSettings.stealTimeoutSec),
         allowSteal |-> currentSettings.allowSteal,
         bonusForSteal |->
           stored(settingsToUpdate.bonusForSteal, currentSettings.bonusForSteal)]
  IN
  IF ~roomData.exists THEN Out(w, "error", "none")
  ELSE IF roomData.hostUid # hostUid THEN Out(w, "error", "host")
  ELSE IF roomData.state # "waiting" THEN Out(w, "error", "state")
  ELSE Out([w EXCEPT !.room.gameSettings = validatedNewSettings], "ok", "none")

\* updateGameSettings.  A field of settingsToUpdate is the empty set when the
\* caller did not supply it, else the set of its value; allowSteal is
\* "undefined", or "true" / "false" for a truthy / falsy value.
updateGameSettings(w, hostUid, settingsToUpdate) ==
  LET roomData == w.room
      currentSettings == roomData.gameSettings
      qpp == parseInt(ValueOf(settingsToUpdate.questionsPerPlayer))
      tts == parseInt(ValueOf(settingsToUpdate.turnTimeoutSec))
      sts == parseInt(ValueOf(settingsToUpdate.stealTimeoutSec))
      bfs == parseInt(ValueOf(settingsToUpdate.bonusForSteal))
      validatedNewSettings ==
        [questionsPerPlayer |->
           IF Supplied(settingsToUpdate.questionsPerPlayer) THEN qpp.n
           ELSE currentSettings.questionsPerPlayer,
         turnTimeoutSec |->
           IF Supplied(settingsToUpdate.turnTimeoutSec) THEN tts.n
           ELSE currentSettings.turnTimeoutSec,
         stealTimeoutSec |->
           IF Supplied(settingsToUpdate.stealTimeoutSec) THEN sts.n
           ELSE currentSettings.stealTimeoutSec,
         allowSteal |->
           IF settingsToUpdate.allowSteal # "undefined" THEN settingsToUpdate.allowSteal = "true"
           ELSE currentSettings.allowSteal,
         bonusForSteal |->
           IF Supplied(settingsToUpdate.bonusForSteal) THEN bfs.n
           ELSE currentSettings.bonusForSteal]
  IN
  IF ~roomData.exists THEN Out(w, "error", "none")
  ELSE IF roomData.hostUid # hostUid THEN Out(w, "error", "host")
  ELSE IF roomData.state # "waiting" THEN Out(w, "error", "state")
  ELSE IF Supplied(settingsToUpdate.questionsPerPlayer) /\ ~Between(qpp, 1, 20)
  THEN Out(w, "error", "range")
  ELSE IF Supplied(settingsToUpdate.turnTimeoutSec) /\ ~Between(tts, 5, 60)
  THEN Out(w, "error", "range")
  ELSE IF Supplied(settingsToUpdate.stealTimeoutSec) /\ ~Between(sts, 3, 30)
  THEN Out(w, "error", "range")
  ELSE IF Supplied(settingsToUpdate.bonusForSteal) /\ ~Between(bfs, 0, 5)
  THEN Out(w, "error", "range")
  ELSE Out([w EXCEPT !.room.gameSettings = validatedNewSettings], "ok", "none")

\* A rejoin that reinstates every user as player.
handleRejoinGameAsPlayer(w, uid) ==
  LET roomData == w.room
      w1 == [w EXCEPT !.players[uid].online = TRUE, !.players[uid].role = "player"]
  IN
  IF ~roomData.exists \/ ~w.players[uid].exists THEN Out(w, "error", "none")
  ELSE IF roomData.state = "active"
          /\ getQuestion(w1.questions, roomData.currentQuestionDbIndex).thrown
  THEN Out(w1, "error", "player")
  ELSE Out(w1, "ok", "player")

\* A rejoin that demotes a player whose slot has passed and reinstates a
\* spectator of the turn order.
handleRejoinGameReinstating(w, uid) ==
  LET roomData == w.room
      playerIndexInActiveOrder == IndexOf(roomData.activeTurnOrderUids, uid)
      theirTurnInCurrentRoundPassed ==
        \/ playerIndexInActiveOrder < roomData.currentPlayerIndexInOrder
        \/ playerIndexInActiveOrder = roomData.currentPlayerIndexInOrder
             /\ roomData.currentTurnUid # uid
      activeRole == IF playerIndexInActiveOrder = -1 THEN "spectator"
                    ELSE IF theirTurnInCurrentRoundPassed /\ w.players[uid].role = "player"
                         THEN "spectator" ELSE "player"
      playerRole == IF roomData.state = "active" THEN activeRole ELSE "player"
      w1 == [w EXCEPT !.players[uid].online = TRUE, !.players[uid].role = playerRole]
  IN
  IF ~roomData.exists \/ ~w.players[uid].exists THEN Out(w, "error", "none")
  ELSE IF roomData.state = "active"
          /\ getQuestion(w1.questions, roomData.currentQuestionDbIndex).thrown
  THEN Out(w1, "error", playerRole)
  ELSE Out(w1, "ok", playerRole)

handleRejoinGame(w, uid) ==
  LET roomData == w.room
      playerIndexInActiveOrder == IndexOf(roomData.activeTurnOrderUids, uid)
      theirTurnInCurrentRoundPassed ==
        \/ playerIndexInActiveOrder < roomData.currentPlayerIndexInOrder
        \/ playerIndexInActiveOrder = roomData.currentPlayerIndexInOrder
             /\ roomData.currentTurnUid # uid
      activeRole == IF playerIndexInActiveOrder = -1 THEN "spectator"
                    ELSE IF theirTurnInCurrentRoundPassed THEN "spectator" ELSE "player"
      playerRole == IF roomData.state = "active" THEN activeRole ELSE "player"
      w1 == [w EXCEPT !.players[uid].online = TRUE, !.players[uid].role = playerRole]
  IN
  IF ~roomData.exists \/ ~w.players[uid].exists THEN Out(w, "error", "none")
  ELSE IF roomData.state = "active"
          /\ getQuestion(w1.questions, roomData.currentQuestionDbIndex).thrown
  THEN Out(w1, "error", playerRole)
  ELSE Out(w1, "ok", playerRole)

NumOptions == 4

\* The questions startGame stores: question idx has id String(idx); the
\* position of the correct answer after the shuffle is one of the NumOptions
\* positions, drawn here from the shuffle.
questionsToStore(totalQuestionCount, shuffle) ==
  [i \in 1..totalQuestionCount |-> ((i - 1) + shuffle) % NumOptions]

batchStoreQuestions(questions, stored) ==
  [i \in 1..(IF Len(questions) > Len(stored) THEN Len(questions) ELSE Len(stored)) |->
      IF i <= Len(stored) THEN stored[i] ELSE questions[i]]

\* The settings of a game:start request.  The three numbers go through ||, so
\* 0 stands for every falsy value and for a field the caller did not supply.
\* allowSteal is "undefined" when not supplied, else "true" or "false";
\* bonusForSteal is the empty set when not supplied, else the set of its value.
startGame(w, settings, fetched, shuffle) ==
  LET existingRoomData == w.room
      allPlayersInRoom == getPlayersByRoomSorted(w.players)
      activeTurnOrderUids == SelectSeq2(allPlayersInRoom, w.players, TRUE)
      gameSettings ==
        [questionsPerPlayer |->
            JsOr(settings.questionsPerPlayer,
                 JsOr(existingRoomData.gameSettings.questionsPerPlayer,
                      DEFAULT_QUESTIONS_PER_PLAYER)),
         turnTimeoutSec |->
            JsOr(settings.turnTimeoutSec,
                 JsOr(existingRoomData.gameSettings.turnTimeoutSec, DEFAULT_TURN_TIMEOUT_SEC)),
         stealTimeoutSec |->
            JsOr(settings.stealTimeoutSec,
                 JsOr(existingRoomData.gameSettings.stealTimeoutSec,
                      DEFAULT_STEAL_TIMEOUT_SEC)),
         allowSteal |->
            IF settings.allowSteal # "undefined" THEN settings.allowSteal = "true"
            ELSE existingRoomData.gameSettings.allowSteal,
         bonusForSteal |->
            IF settings.bonusForSteal # {} THEN CHOOSE b \in settings.bonusForSteal : TRUE
            ELSE existingRoomData.gameSettings.bonusForSteal]
      totalQuestionCount == Len(activeTurnOrderUids) * gameSettings.questionsPerPlayer
      committed ==
        [w EXCEPT
           !.questions = batchStoreQuestions(@, questionsToStore(totalQuestionCount, shuffle)),
           !.room = [existingRoomData EXCEPT
                       !.state = "active", !.currentQuestionDbIndex = 0,
                       !.questionCount = totalQuestionCount,
                       !.currentTurnUid = activeTurnOrderUids[1],
                       !.activeTurnOrderUids = activeTurnOrderUids,
                       !.currentPlayerIndexInOrder = 0,
                       !.currentStealAttempt = NoSteal,
                       !.gameSettings = gameSettings],
           !.players = [u \in AllUids |->
                          IF IsOnlinePlayer(w.players[u])
                          THEN [w.players[u] EXCEPT !.score = 0] ELSE w.players[u]]]
      firstQuestion == getQuestion(committed.questions, 0)
  IN
  IF ~existingRoomData.exists THEN Out(w, "error", "none")
  ELSE IF Len(activeTurnOrderUids) < 2 THEN Out(w, "error", "none")
  ELSE IF fetched # "ok" THEN Out(w, "error", "none")
  ELSE IF firstQuestion.thrown \/ ~firstQuestion.found THEN Out(committed, "error", "committed")
  ELSE Out([committed EXCEPT
              !.timers.turn = [uid |-> activeTurnOrderUids[1], qid |-> firstQuestion.id]],
           "ok", "committed")

\* ------------------------------------------------------------ play again
PLAY_AGAIN_REQUIRED_VOTES == 2

\* No votes and no voting timer for the room.
NoPlayAgain == [votes |-> {}, timer |-> FALSE]

clearPlayAgainStateForRoom(w) == [w EXCEPT !.playAgain = NoPlayAgain]

\* playAgainRequest from uid, with totalOnlineInRoom sockets in the room.
\* The result tells whether startGame was called.
playAgainRequest(w, uid, totalOnlineInRoom, fetched, shuffle) ==
  IF uid \in w.playAgain.votes THEN [w |-> w, started |-> FALSE]
  ELSE
    LET w1 == [w EXCEPT !.playAgain.votes = @ \cup {uid}]
        votes == Cardinality(w1.playAgain.votes)
        w2 == IF votes = 1 /\ ~w1.playAgain.timer
                 /\ totalOnlineInRoom >= PLAY_AGAIN_REQUIRED_VOTES
              THEN [w1 EXCEPT !.playAgain.timer = TRUE]
              ELSE w1
    IN IF votes >= PLAY_AGAIN_REQUIRED_VOTES /\ totalOnlineInRoom >= PLAY_AGAIN_REQUIRED_VOTES
       THEN [w |-> startGame(clearPlayAgainStateForRoom(w2),
                             [questionsPerPlayer |-> 0, turnTimeoutSec |-> 0,
                              stealTimeoutSec |-> 0, allowSteal |-> "undefined",
                              bonusForSteal |-> {}],
                             fetched, shuffle).w,
             started |-> TRUE]
       ELSE [w |-> w2, started |-> FALSE]

\* The voting timer fires.
playAgainTimeout(w) == clearPlayAgainStateForRoom(w)

\* The game handlers' "disconnecting" listener, after cleanupOnDisconnect:
\* the vote of uid is removed.
removeVoteOnDisconnect(w, uid) ==
  IF uid \in w.playAgain.votes
  THEN IF w.playAgain.votes \ {uid} = {}
       THEN clearPlayAgainStateForRoom(w)
       ELSE [w EXCEPT !.playAgain.votes = @ \ {uid}]
  ELSE w

\* ------------------------------------------------------------------ state
\* room, players, questions: the documents of the store for the room that is
\* followed; otherRooms: the codes of the other rooms in the store.  timers: the armed
\* turn and steal timers of the room.  playAgain: the votes for another game
\* and whether the voting timer is armed.  inSock[u]: u's socket is in the
\* socket.io room.  hist records what has happened, for the properties:
\*   subject, correctSubmits  the turn-taker, question index and score at
\*                   the first correct turn submission of the game in
\*                   progress, and how many correct submissions that user
\*                   has sent for that question;
\*   leftWhileActive a leaveRoom was handled in the game in progress;
\*   endedSubmits    a submitAnswer or submitSteal was handled since the
\*                   game ended;
\*   rejectedFull    a joinRoom of a new user was rejected for capacity;
\*   settingsRejected  the host's room:updateSettings for the waiting room, with
\*                   a field it could have stored next to one out of range,
\*                   was answered with an error;
\*   rejoined        the handler was game:rejoin, followed as the return of a
\*                   user who was offline in an active room: who, and the
\*                   role held at that moment;
\*   reply           what the last submitAnswer or submitSteal met and what
\*                   came of it;
\*   quorumFrom      the state of the room when the votes last made
\*                   playAgainRequest call startGame;
\*   started         the handler was game:start and startGame made its
\*                   writes: the users who were online with role player
\*                   when it was called;
\*   found           the last call of findNextOnlinePlayerInFixedOrder that
\*                   was followed on its own, and what it returned;
\*   demoted         the users of the turn order whom a game:rejoin has
\*                   turned from player into spectator in the game in
\*                   progress.
VARIABLES room, players, questions, timers, otherRooms, playAgain, inSock, hist

vars == <<room, players, questions, timers, otherRooms, playAgain, inSock, hist>>

World ==
  [room |-> room, players |-> players, questions |-> questions, timers |-> timers,
   otherRooms |-> otherRooms, playAgain |-> playAgain]

Apply(w) ==
  /\ room' = w.room
  /\ players' = w.players
  /\ questions' = w.questions
  /\ timers' = w.timers
  /\ otherRooms' = w.otherRooms
  /\ playAgain' = w.playAgain

NoSubject == [uid |-> NULL, idx |-> -1, score |-> 0]

NoRejoin == [uid |-> NULL, role |-> "none"]

\* What the last submitAnswer or submitSteal request met and what came of it.
NoReply ==
  [op |-> "none", uid |-> NULL, index |-> -1, active |-> FALSE, onTurn |-> FALSE,
   isStealer |-> FALSE,
   mismatch |-> FALSE, wrong |-> FALSE, status |-> "none",
   noActionTaken |-> FALSE, events |-> {}, changed |-> FALSE]

\* No search for the next player has been made.
NoFound ==
  [done |-> FALSE, startAfterUid |-> NULL, nextPlayerUid |-> NULL, nextPlayerIndexInOrder |-> -1]

\* No game has just been started.
NoStart == [done |-> FALSE, participants |-> {}]

NoHist ==
  [subject |-> NoSubject, correctSubmits |-> 0, leftWhileActive |-> FALSE, endedSubmits |-> FALSE,
   rejectedFull |-> FALSE, settingsRejected |-> FALSE, rejoined |-> NoRejoin, reply |-> NoReply,
   quorumFrom |-> "none", started |-> NoStart, found |-> NoFound, demoted |-> {}]

\* The record h kept for the room as the handler leaves it.
Track(h, roomAfter) ==
  LET active == roomAfter.exists /\ roomAfter.state = "active"
      ended == roomAfter.exists /\ roomAfter.state = "ended"
  IN [subject |-> IF active THEN h.subject ELSE NoSubject,
      correctSubmits |-> IF active THEN h.correctSubmits ELSE 0,
      leftWhileActive |-> active /\ h.leftWhileActive,
      endedSubmits |-> ended /\ h.endedSubmits,
      rejectedFull |-> h.rejectedFull,
      settingsRejected |-> h.settingsRejected,
      rejoined |-> NoRejoin,
      reply |-> NoReply,
      quorumFrom |-> h.quorumFrom,
      started |-> NoStart,
      found |-> NoFound,
      demoted |-> IF active THEN h.demoted ELSE {}]

QuestionIds == {StringOf(i) : i \in 0..(NumQuestionIds - 1)}
AnswerChoices == 0..(NumAnswerChoices - 1)
StartSettings ==
  [questionsPerPlayer : 0..MaxQuestionsPerPlayer, turnTimeoutSec : {0}, stealTimeoutSec : {0},
   allowSteal : {"undefined", "true", "false"}, bonusForSteal : {{}}]

\* Requests that override the timeouts and the bonus.
StartOverrides ==
  [questionsPerPlayer : {0}, turnTimeoutSec : {0, 61}, stealTimeoutSec : {0},
   allowSteal : {"undefined"}, bonusForSteal : {{}, {6}}]

\* What room:updateSettings requests carry: at most MaxPatchFields fields, the
\* numbers 2.5 and 61 or a text that is no number.
PatchValues ==
  {[nan |-> TRUE, tenths |-> 0]} \cup {[nan |-> FALSE, tenths |-> t] : t \in {25, 610}}
PatchField == {{}} \cup {{value} : value \in PatchValues}
PatchSize(patch) ==
  Cardinality({f \in {"questionsPerPlayer", "turnTimeoutSec", "stealTimeoutSec", "bonusForSteal"} :
                 Supplied(patch[f])})
    + (IF patch.allowSteal # "undefined" THEN 1 ELSE 0)
SettingsPatches ==
  {patch \in [questionsPerPlayer : PatchField, turnTimeoutSec : PatchField,
               stealTimeoutSec : PatchField, allowSteal : {"undefined", "true", "false"},
               bonusForSteal : PatchField] : PatchSize(patch) <= MaxPatchFields}

\* The ranges of the settings, and what lies outside them.
OutOfRange(field, lo, hi) ==
  Supplied(field) /\ LET x == parseInt(ValueOf(field)) IN x.nan \/ x.n < lo \/ x.n > hi
InRange(field, lo, hi) ==
  Supplied(field) /\ LET x == parseInt(ValueOf(field)) IN ~x.nan /\ lo <= x.n /\ x.n <= hi
SomeOutOfRange(patch) ==
  \/ OutOfRange(patch.questionsPerPlayer, 1, 20)
  \/ OutOfRange(patch.turnTimeoutSec, 5, 60)
  \/ OutOfRange(patch.stealTimeoutSec, 3, 30)
  \/ OutOfRange(patch.bonusForSteal, 0, 5)
SomeInRange(patch) ==
  \/ InRange(patch.questionsPerPlayer, 1, 20)
  \/ InRange(patch.turnTimeoutSec, 5, 60)
  \/ InRange(patch.stealTimeoutSec, 3, 30)
  \/ InRange(patch.bonusForSteal, 0, 5)
  \/ patch.allowSteal # "undefined"

\* The random bytes createRoom may get from crypto.randomBytes.
ByteValues == {0, 255}
RandomBytes == [1..CodeLength -> ByteValues]

\* The state after createRoom by user 1, whose socket has joined the room; the
\* random bytes of that call were all 0.
Init ==
  /\ room = createRoomData(1, generateRoomCode([i \in 1..CodeLength |-> 0]))
  /\ otherRooms = <<>>
  /\ players = [u \in AllUids |-> IF u = 1 THEN hostPlayerData ELSE NoPlayer]
  /\ questions = <<>>
  /\ timers = NoTimers
  /\ playAgain = NoPlayAgain
  /\ inSock = [u \in AllUids |-> u = 1]
  /\ hist = NoHist

\* --------------------------------------------------------- socket handlers
JoinRoom(u) ==
  LET r == joinRoom(World, u) IN
  /\ Apply(r.w)
  /\ inSock' = IF r.kind = "ok" THEN [inSock EXCEPT ![u] = TRUE] ELSE inSock
  /\ hist' = Track([hist EXCEPT !.rejectedFull = @ \/ r.phase = "full"], r.w.room)

LeaveRoom(u) ==
  LET roomIsActive == room.exists /\ room.state = "active"
      leaveResult == leaveRoom(World, u)
      r == IF roomIsActive THEN handlePlayerLeave(leaveResult.w, u)
           ELSE Out(leaveResult.w, "ok", "none")
  IN
  /\ inSock[u]
  /\ Apply(r.w)
  /\ inSock' = IF r.kind = "error" THEN inSock ELSE [inSock EXCEPT ![u] = FALSE]
  /\ hist' = Track([hist EXCEPT !.leftWhileActive = @ \/ roomIsActive], r.w.room)

\* The two "disconnecting" listeners of a socket: the room handlers' removes
\* the user from a room that is not active, the game handlers' marks the user
\* offline in an active one and takes back the user's vote for another game.
Disconnect(u) ==
  LET w == removeVoteOnDisconnect(IF room.exists /\ room.state = "active"
                                  THEN cleanupOnDisconnect(World, u)
                                  ELSE leaveRoom(World, u).w,
                                  u)
  IN
  /\ inSock[u]
  /\ Apply(w)
  /\ inSock' = [inSock EXCEPT ![u] = FALSE]
  /\ hist' = Track(hist, w.room)

RejoinHandler(u) ==
  LET r == handleRejoinGame(World, u) IN
  /\ Apply(r.w)
  /\ inSock' = [inSock EXCEPT ![u] = TRUE]

Rejoin(u) ==
  /\ RejoinHandler(u)
  /\ hist' = [hist EXCEPT !.rejoined = NoRejoin, !.reply = NoReply, !.started = NoStart]

\* game:rejoin with the demotions of the game in progress kept.
RejoinDemoting(u) ==
  LET r == handleRejoinGame(World, u) IN
  /\ RejoinHandler(u)
  /\ hist' = [hist EXCEPT
               !.rejoined = [uid |-> u, role |-> players[u].role],
               !.reply = NoReply, !.started = NoStart,
               !.demoted =
                  IF /\ room.exists /\ room.state = "active"
                     /\ IndexOf(room.activeTurnOrderUids, u) # -1
                     /\ players[u].exists /\ players[u].role = "player"
                     /\ r.w.players[u].role = "spectator"
                  THEN @ \cup {u} ELSE @]

\* game:rejoin from a user whom a disconnect left offline in the active room.
RejoinAfterDisconnect(u) ==
  /\ room.exists /\ room.state = "active"
  /\ players[u].exists /\ ~players[u].online
  /\ RejoinHandler(u)
  /\ hist' = [hist EXCEPT !.rejoined = [uid |-> u, role |-> players[u].role],
                          !.reply = NoReply, !.started = NoStart]

\* createRoom from a user who opens a further room.
CreateRoom(u, bytes) ==
  /\ Len(otherRooms) < MaxOtherRooms
  /\ Apply(createRoom(World, u, bytes))
  /\ UNCHANGED <<inSock, hist>>

UpdateSettings(u, settingsToUpdate) ==
  LET r == updateGameSettings(World, u, settingsToUpdate)
      mixed == /\ room.exists /\ room.hostUid = u /\ room.state = "waiting"
               /\ SomeInRange(settingsToUpdate) /\ SomeOutOfRange(settingsToUpdate)
  IN
  /\ inSock[u]
  /\ Apply(r.w)
  /\ hist' = Track([hist EXCEPT !.settingsRejected = @ \/ (mixed /\ r.kind = "error")],
                   r.w.room)
  /\ UNCHANGED inSock

StartGame(u, settings, fetched, shuffle) ==
  LET r == startGame(World, settings, fetched, shuffle) IN
  /\ inSock[u]
  /\ Apply(r.w)
  /\ hist' = IF r.phase = "committed"
             THEN [NoHist EXCEPT !.rejectedFull = hist.rejectedFull,
                                 !.settingsRejected = hist.settingsRejected,
                                 !.quorumFrom = hist.quorumFrom]
             ELSE [hist EXCEPT !.rejoined = NoRejoin, !.reply = NoReply, !.started = NoStart]
  /\ UNCHANGED inSock

\* game:start with what startGame has written kept for the properties.
StartGameMarked(u, settings, fetched, shuffle) ==
  LET r == startGame(World, settings, fetched, shuffle) IN
  /\ inSock[u]
  /\ Apply(r.w)
  /\ hist' = IF r.phase = "committed"
             THEN [NoHist EXCEPT
                     !.rejectedFull = hist.rejectedFull,
                     !.settingsRejected = hist.settingsRejected,
                     !.quorumFrom = hist.quorumFrom,
                     !.started =
                        [done |-> TRUE,
                         participants |->
                           {v \in AllUids : /\ players[v].exists /\ players[v].online
                                            /\ players[v].role = "player"}]]
             ELSE [hist EXCEPT !.rejoined = NoRejoin, !.reply = NoReply, !.started = NoStart]
  /\ UNCHANGED inSock

NoSettings ==
  [questionsPerPlayer |-> 0, turnTimeoutSec |-> 0, stealTimeoutSec |-> 0,
   allowSteal |-> "undefined", bonusForSteal |-> {}]

\* A game:start request.  What the caller puts in settings and how the
\* options are shuffled matter only when the question source answers in full.
StartGameAny(u, fetches) ==
  \E fetched \in fetches :
    \E settings \in IF fetched = "ok" THEN StartSettings ELSE {NoSettings},
       shuffle \in IF fetched = "ok" THEN 0..(NumShuffles - 1) ELSE {0} :
      StartGame(u, settings, fetched, shuffle)

IsCorrectTurnSubmission(u, questionId, answerIndex) ==
  /\ room.exists /\ room.state = "active"
  /\ room.currentTurnUid = u
  /\ questionId = StringOf(room.currentQuestionDbIndex)
  /\ room.currentQuestionDbIndex + 1 <= Len(questions)
  /\ questions[room.currentQuestionDbIndex + 1] = answerIndex

SubmitAnswer(u, questionId, answerIndex) ==
  LET r == submitAnswer(World, u, questionId, answerIndex, FALSE)
      first == hist.correctSubmits = 0 /\ IsCorrectTurnSubmission(u, questionId, answerIndex)
      again == /\ hist.correctSubmits >= 1 /\ hist.correctSubmits < MaxCorrectSubmits
               /\ u = hist.subject.uid
               /\ questionId = StringOf(hist.subject.idx)
               /\ answerIndex = questions[hist.subject.idx + 1]
      h == IF first
           THEN [hist EXCEPT !.subject = [uid |-> u, idx |-> room.currentQuestionDbIndex,
                                          score |-> players[u].score],
                             !.correctSubmits = 1]
           ELSE IF again THEN [hist EXCEPT !.correctSubmits = @ + 1]
           ELSE hist
  IN
  /\ inSock[u]
  /\ Apply(r.w)
  /\ hist' = Track([h EXCEPT !.endedSubmits = TRUE], r.w.room)
  /\ UNCHANGED inSock

SubmitSteal(u, questionId, answerIndex) ==
  LET r == handleSteal(World, u, questionId, answerIndex, FALSE) IN
  /\ inSock[u]
  /\ Apply(r.w)
  /\ hist' = Track([hist EXCEPT !.endedSubmits = TRUE], r.w.room)
  /\ UNCHANGED inSock

\* The reply to a request: the acknowledgement sent to the caller, the events
\* sent to the room, and whether the service call r changed anything.
ReplyTo(op, u, questionId, answerIndex, r, events) ==
  [op |-> op,
   uid |-> u,
   index |-> room.currentQuestionDbIndex,
   active |-> room.exists /\ room.state = "active",
   onTurn |-> room.exists /\ room.state = "active" /\ room.currentTurnUid = u,
   isStealer |-> /\ room.exists /\ room.state = "active"
                 /\ room.currentStealAttempt.stealerUid = u,
   mismatch |-> questionId # StringOf(room.currentQuestionDbIndex),
   wrong |-> /\ room.currentQuestionDbIndex + 1 <= Len(questions)
             /\ questions[room.currentQuestionDbIndex + 1] # answerIndex,
   status |-> IF r.kind = "error" THEN "error" ELSE "ok",
   noActionTaken |-> r.kind = "noAction",
   events |-> events,
   changed |-> <<r.w.room, r.w.players, r.w.timers>> # <<room, players, timers>>]

\* The submitAnswer request with its reply kept.
SubmitAnswerReply(u, questionId, answerIndex) ==
  LET r == submitAnswer(World, u, questionId, answerIndex, FALSE) IN
  /\ inSock[u]
  /\ Apply(r.w)
  /\ hist' = [Track([hist EXCEPT !.endedSubmits = TRUE], r.w.room) EXCEPT
               !.reply = ReplyTo("submitAnswer", u, questionId, answerIndex, r, submitAnswerEvents(r))]
  /\ UNCHANGED inSock

\* The submitSteal request with its reply kept.
SubmitStealReply(u, questionId, answerIndex) ==
  LET r == handleSteal(World, u, questionId, answerIndex, FALSE) IN
  /\ inSock[u]
  /\ Apply(r.w)
  /\ hist' = [Track([hist EXCEPT !.endedSubmits = TRUE], r.w.room) EXCEPT
               !.reply = ReplyTo("submitSteal", u, questionId, answerIndex, r, submitStealEvents(r))]
  /\ UNCHANGED inSock

\* playAgainRequest from u.
PlayAgainRequest(u, fetched, shuffle) ==
  LET totalOnlineInRoom == Cardinality({v \in AllUids : inSock[v]})
      r == playAgainRequest(World, u, totalOnlineInRoom, fetched, shuffle)
  IN
  /\ inSock[u]
  /\ Apply(r.w)
  /\ hist' = [Track(hist, r.w.room) EXCEPT
               !.quorumFrom = IF ~r.started THEN @
                              ELSE IF room.exists THEN room.state ELSE "deleted"]
  /\ UNCHANGED inSock

\* The voting timer of the room fires.
PlayAgainTimeout ==
  /\ playAgain.timer
  /\ Apply(playAgainTimeout(World))
  /\ UNCHANGED <<inSock, hist>>

\* The armed timer of the phase fires.
TimerFires(phase) ==
  LET w == timeoutFired(World, phase) IN
  /\ timers[phase] # NoTimer
  /\ Apply(w)
  /\ hist' = Track(hist, w.room)
  /\ UNCHANGED inSock

Next ==
  \E u \in Users :
    \/ JoinRoom(u)
    \/ LeaveRoom(u)
    \/ Disconnect(u)
    \/ Rejoin(u)
    \/ StartGameAny(u, {"ok", "fail", "short"})
    \/ \E q \in QuestionIds, a \in AnswerChoices : SubmitAnswer(u, q, a)
    \/ \E q \in QuestionIds, a \in AnswerChoices : SubmitSteal(u, q, a)

Spec == Init /\ [][Next]_vars

\* New users arrive in the order of their uids; a user who has a record may
\* call joinRoom again.
NextToJoin(u) ==
  players[u].exists \/ u = MinOf({v \in JoinUsers : ~players[v].exists} \cup {NumJoiners})

NextJoin ==
  \E u \in JoinUsers :
    \/ NextToJoin(u) /\ JoinRoom(u)
    \/ u <= NumStarters /\ StartGameAny(u, {"ok"})

SpecJoin == Init /\ [][NextJoin]_vars

NextLobby ==
  \E u \in JoinUsers :
    \/ NextToJoin(u) /\ JoinRoom(u)
    \/ players[u].exists /\ Rejoin(u)
    \/ u <= NumStarters /\ StartGameAny(u, {"ok"})

SpecLobby == Init /\ [][NextLobby]_vars

\* The room service alone: users come and go, and no game is started.
NextRoom == \E u \in Users : JoinRoom(u) \/ LeaveRoom(u) \/ Disconnect(u) \/ Rejoin(u)

SpecRoom == Init /\ [][NextRoom]_vars

\* Rooms are created.
NextCreate == \E u \in Users, bytes \in RandomBytes : CreateRoom(u, bytes)

SpecCreate == Init /\ [][NextCreate]_vars

\* The host and the others change the settings, in the lobby and with the
\* game:start request.
NextSettings ==
  \E u \in 1..NumStarters :
    \/ JoinRoom(u)
    \/ LeaveRoom(u)
    \/ \E settingsToUpdate \in SettingsPatches : UpdateSettings(u, settingsToUpdate)
    \/ \E settings \in StartOverrides : StartGame(u, settings, "ok", 0)

SpecSettings == Init /\ [][NextSettings]_vars

\* Games are started and answers and steals are submitted.
NextAnswer ==
  \E u \in Users :
    \/ JoinRoom(u)
    \/ LeaveRoom(u)
    \/ \E settings \in {t \in StartSettings : t.questionsPerPlayer = 0} :
         StartGame(u, settings, "ok", 0)
    \/ \E q \in QuestionIds, a \in AnswerChoices : SubmitAnswerReply(u, q, a)
    \/ \E q \in QuestionIds, a \in AnswerChoices : SubmitStealReply(u, q, a)

SpecAnswer == Init /\ [][NextAnswer]_vars

\* Users come and go and vote for another game.
NextPlayAgain ==
  \/ \E u \in Users :
       \/ JoinRoom(u)
       \/ LeaveRoom(u)
       \/ Disconnect(u)
       \/ PlayAgainRequest(u, "ok", 0)
  \/ PlayAgainTimeout

SpecPlayAgain == Init /\ [][NextPlayAgain]_vars

\* The voting timer, once armed, fires unless it is cleared; what the users
\* do is up to them.
SpecPlayAgainTimed == SpecPlayAgain /\ WF_vars(PlayAgainTimeout)

\* Games are started and no client answers: users join, disconnect and come
\* back.  An armed turn or steal timer fires; scheduleGameTimeout is the only
\* place that arms one, and no call of it is reached (TimersNeverArmed), so
\* the callbacks take no step of their own.
NextTimed ==
  \E u \in Users :
    \/ JoinRoom(u)
    \/ Disconnect(u)
    \/ Rejoin(u)
    \/ StartGameAny(u, {"ok"})

SpecTimed ==
  /\ Init /\ [][NextTimed]_vars
  /\ WF_vars(TimerFires("turn")) /\ WF_vars(TimerFires("steal"))

\* Users come and go, and games are started, in the lobby and later.
NextStart ==
  \E u \in Users :
    \/ JoinRoom(u)
    \/ LeaveRoom(u)
    \/ Disconnect(u)
    \/ Rejoin(u)
    \/ \E settings \in StartSettings : StartGameMarked(u, settings, "ok", 0)

SpecStart == Init /\ [][NextStart]_vars

\* findNextOnlinePlayerInFixedOrder on its own: an active room with any turn
\* order of distinct users and any index, users with and without a record,
\* online and offline, players and spectators.
TurnOrders ==
  {order \in UNION {[1..n -> Users] : n \in 0..NumUsers} :
     \A i, j \in 1..Len(order) : i # j => order[i] # order[j]}

PlayerRecords ==
  {NoPlayer} \cup [exists : {TRUE}, joinOrder : {1}, score : {0}, online : BOOLEAN,
                   role : {"player", "spectator"}]

InitFind ==
  /\ \E order \in TurnOrders, index \in -1..(NumUsers - 1) :
       room = [createRoomData(1, generateRoomCode([i \in 1..CodeLength |-> 0])) EXCEPT
                 !.state = "active", !.activeTurnOrderUids = order,
                 !.currentPlayerIndexInOrder = index]
  /\ \E records \in [Users -> PlayerRecords] :
       players = [u \in AllUids |->
                    IF u \in Users
                    THEN IF records[u].exists THEN [records[u] EXCEPT !.joinOrder = u]
                         ELSE NoPlayer
                    ELSE NoPlayer]
  /\ otherRooms = <<>>
  /\ questions = <<>>
  /\ timers = NoTimers
  /\ playAgain = NoPlayAgain
  /\ inSock = [u \in AllUids |-> players[u].exists /\ players[u].online]
  /\ hist = NoHist

FindNext(startAfterUid) ==
  LET r == findNextOnlinePlayerInFixedOrder(players, room, startAfterUid) IN
  /\ hist' = [hist EXCEPT
               !.found = [done |-> TRUE, startAfterUid |-> startAfterUid,
                          nextPlayerUid |-> r.nextPlayerUid,
                          nextPlayerIndexInOrder |-> r.nextPlayerIndexInOrder]]
  /\ UNCHANGED <<room, players, questions, timers, otherRooms, playAgain, inSock>>

NextFind == \E startAfterUid \in Users : FindNext(startAfterUid)

SpecFind == InitFind /\ [][NextFind]_vars

\* Users join, disconnect, come back and leave during games, which are
\* started with the settings of the room.
NextDemote ==
  \E u \in Users :
    \/ JoinRoom(u)
    \/ LeaveRoom(u)
    \/ Disconnect(u)
    \/ RejoinDemoting(u)
    \/ StartGame(u, NoSettings, "ok", 0)

SpecDemote == Init /\ [][NextDemote]_vars

\* Users join, disconnect, come back and leave while games are started.
NextRejoin ==
  \E u \in Users :
    \/ JoinRoom(u)
    \/ LeaveRoom(u)
    \/ Disconnect(u)
    \/ Rejoin(u)
    \/ RejoinAfterDisconnect(u)
    \/ StartGameAny(u, {"ok"})

SpecRejoin == Init /\ [][NextRejoin]_vars

\* ------------------------------------------------------------- properties
Active == room.exists /\ room.state = "active"
Ended == room.exists /\ room.state = "ended"
Scores == [u \in AllUids |-> players[u].score]
Position ==
  <<room.currentQuestionDbIndex, room.currentTurnUid, room.currentPlayerIndexInOrder,
    room.currentStealAttempt>>
SumScores == LET RECURSIVE Sum(_)
                 Sum(S) == IF S = {} THEN 0
                           ELSE LET u == CHOOSE v \in S : TRUE
                                IN players[u].score + Sum(S \ {u})
             IN Sum(Members(players))

\* C1: whenever the room is active, the index of the current player is a
\* position of the turn order: 0 <= currentPlayerIndexInOrder <
\* len(activeTurnOrderUids), whatever startGame, submissions, disconnects,
\* rejoins and leaves came before.
C1_IndexInRange ==
  Active => /\ 0 <= room.currentPlayerIndexInOrder
            /\ room.currentPlayerIndexInOrder < Len(room.activeTurnOrderUids)

\* A game that goes on after a user of its turn order has left.
C1_Witness ==
  /\ Active /\ hist.leftWhileActive
  /\ Len(room.activeTurnOrderUids) * room.gameSettings.questionsPerPlayer < room.questionCount

\* C2: while the room is active the turn order is non-empty, each of its uids
\* has a Player record, and when no steal is in progress currentTurnUid is
\* the uid at currentPlayerIndexInOrder of the turn order.
C2_TurnOrderConsistent ==
  Active =>
    /\ room.activeTurnOrderUids # <<>>
    /\ \A i \in 1..Len(room.activeTurnOrderUids) : players[room.activeTurnOrderUids[i]].exists
    /\ room.currentStealAttempt = NoSteal =>
          /\ room.currentPlayerIndexInOrder + 1 \in 1..Len(room.activeTurnOrderUids)
          /\ room.currentTurnUid = room.activeTurnOrderUids[room.currentPlayerIndexInOrder + 1]

\* C4: once the room is ended, a submitAnswer or a submitSteal changes no
\* score and none of currentQuestionDbIndex, currentTurnUid,
\* currentPlayerIndexInOrder, currentStealAttempt; and no turn or steal
\* timer is left armed whose callback could.
C4_EndedIsFinal ==
  [][Ended =>
       /\ timers = NoTimers
       /\ \A u \in Users, q \in QuestionIds, a \in AnswerChoices :
             SubmitAnswer(u, q, a) \/ SubmitSteal(u, q, a) =>
                /\ Scores' = Scores
                /\ Position' = Position]_vars

\* An ended room that has handled a submission since it ended.
C4_Witness == Ended /\ hist.endedSubmits

\* C7: when the turn-taker has sent the correct answer for one question
\* twice, the turn-taker's score has risen by exactly 1 and
\* currentQuestionDbIndex by exactly 1.
C7_TwoSubmitsCountOnce ==
  hist.correctSubmits = 2 =>
    /\ players[hist.subject.uid].score = hist.subject.score + 1
    /\ room.currentQuestionDbIndex = hist.subject.idx + 1

\* C8: the sum of the scores of a game is at most the number of questions
\* answered correctly plus bonusForSteal for each correct steal (no question
\* before currentQuestionDbIndex is answered more than once, and a steal
\* brings 1 + bonusForSteal); and a correct turn answer has raised the
\* answerer's score by 1.
C8_ScoreAccounting ==
  Active =>
    /\ SumScores <= (room.currentQuestionDbIndex + 1) * (1 + room.gameSettings.bonusForSteal)
    /\ hist.correctSubmits >= 1 =>
          players[hist.subject.uid].score >= hist.subject.score + 1

\* C9: after any sequence of joinRoom calls there are at most 8 users with
\* role player, at most 5 with role spectator and at most 13 in all; the
\* users who join a room that has 8 players are spectators; and a joinRoom of
\* a new user when 13 are present leaves the Player records as they are.
C9_JoinCapacity ==
  /\ [](/\ CountRole(players, "player") <= 8
        /\ CountRole(players, "spectator") <= 5
        /\ Cardinality(Members(players)) <= 13
        /\ \A u \in JoinUsers : u > 8 /\ players[u].exists => players[u].role = "spectator")
  /\ [][\A u \in JoinUsers :
          JoinRoom(u) /\ ~players[u].exists /\ Cardinality(Members(players)) = 13
            => players' = players]_vars

\* A waiting room of 8 players and 5 spectators, the 9th joiner among the
\* spectators, that has turned a 14th user away.
C9_Witness ==
  /\ room.state = "waiting" /\ hist.rejectedFull
  /\ CountRole(players, "player") = 8 /\ CountRole(players, "spectator") = 5
  /\ players[9].role = "spectator"
  /\ \E u \in JoinUsers : ~players[u].exists

\* C10: in every reachable state, whatever joins, rejoins and game starts
\* produced it, at most 8 users have role player, at most 5 have role
\* spectator and at most 13 are in the room.
C10_CapacityAlways ==
  /\ CountRole(players, "player") <= MAX_PLAYERS_ROLE_COUNT
  /\ CountRole(players, "spectator") <= MAX_SPECTATORS_COUNT
  /\ Cardinality(Members(players)) <= MAX_TOTAL_USERS_IN_ROOM

\* C11: no two Player records of the room carry the same joinOrder, after
\* any sequence of joinRoom and leaveRoom that follows createRoom.
C11_JoinOrderUnique ==
  \A u, v \in Members(players) : u # v => players[u].joinOrder # players[v].joinOrder

RejoinedInOrder ==
  IndexOf(room.activeTurnOrderUids, hist.rejoined.uid) # -1

\* Their index in activeTurnOrderUids is below currentPlayerIndexInOrder, or
\* equal to it while currentTurnUid is another user.
RejoinedSlotPassed ==
  LET i == IndexOf(room.activeTurnOrderUids, hist.rejoined.uid) IN
  /\ RejoinedInOrder
  /\ \/ i < room.currentPlayerIndexInOrder
     \/ i = room.currentPlayerIndexInOrder /\ room.currentTurnUid # hist.rejoined.uid

\* The role held when game:rejoin arrives is the one held at the disconnect,
\* for a user who is then in the turn order of the active room: the step that
\* takes a user offline keeps the role, and a user who is offline and in the
\* turn order after a step was so before it, with the same role.
OfflineRoleKept ==
  \A u \in Users :
    /\ (players[u].exists /\ players[u].online /\ players'[u].exists /\ ~players'[u].online)
         => players'[u].role = players[u].role
    /\ (/\ players[u].exists /\ ~players[u].online
        /\ players'[u].exists /\ ~players'[u].online
        /\ room'.exists /\ room'.state = "active"
        /\ IndexOf(room'.activeTurnOrderUids, u) # -1)
         => /\ room.exists /\ room.state = "active"
            /\ IndexOf(room.activeTurnOrderUids, u) # -1
            /\ players'[u].role = players[u].role

\* C12 as stated: a participant of an active room who disconnected and issued
\* game:rejoin has the role held before the disconnect, except that the role
\* is spectator when the room has moved past their slot in activeTurnOrderUids.
C12_RejoinRoundTrip ==
  /\ [](hist.rejoined.uid # NULL =>
          players[hist.rejoined.uid].role =
            IF RejoinedSlotPassed THEN "spectator" ELSE hist.rejoined.role)
  /\ [][OfflineRoleKept]_vars

\* C12 amended: the role is spectator also when the user is not in
\* activeTurnOrderUids at all.
C12_RejoinRoundTripOrLateEntrant ==
  /\ [](hist.rejoined.uid # NULL =>
          players[hist.rejoined.uid].role =
            IF ~RejoinedInOrder \/ RejoinedSlotPassed THEN "spectator"
            ELSE hist.rejoined.role)
  /\ [][OfflineRoleKept]_vars

\* A user came back to the slot they still hold, and one came back to find
\* themselves outside the turn order.
C12_Witness ==
  /\ hist.rejoined.uid # NULL
  /\ RejoinedInOrder /\ ~RejoinedSlotPassed
  /\ players[hist.rejoined.uid].role = "player"

C12_WitnessLateEntrant ==
  /\ hist.rejoined.uid # NULL
  /\ ~RejoinedInOrder
  /\ hist.rejoined.role = "player"

\* C13: when startGame has put a room that was waiting or ended into a game,
\* the stored questions are exactly those of the new game: questionCount
\* records, with indices 0..questionCount-1.
C13_ExactlyQuestionCount ==
  [][(room.exists /\ room.state # "active" /\ room'.exists /\ room'.state = "active")
       => Len(questions') = room'.questionCount]_vars

\* C14: a game:start on a waiting room that is answered with an error, for
\* whatever reason, leaves the room waiting.
C14_FailedStartStaysWaiting ==
  [][\A u \in Users, fetched \in {"ok", "fail", "short"}, settings \in StartSettings,
        shuffle \in 0..(NumShuffles - 1) :
       (/\ room.exists /\ room.state = "waiting"
        /\ startGame(World, settings, fetched, shuffle).kind = "error"
        /\ StartGame(u, settings, fetched, shuffle))
         => room'.exists /\ room'.state = "waiting"]_vars

\* C15: a game:start from a user who is not the host, or for a room that is
\* active, changes nothing: the room goes active through game:start only when
\* the caller is hostUid and the room is waiting.
C15_OnlyHostStartsWaitingRoom ==
  [][\A u \in Users, fetched \in {"ok", "fail", "short"}, settings \in StartSettings,
        shuffle \in 0..(NumShuffles - 1) :
       (/\ room.exists
        /\ room.hostUid # u \/ room.state = "active"
        /\ StartGame(u, settings, fetched, shuffle))
         => room' = room /\ players' = players /\ questions' = questions]_vars

OnlinePlayersInOrder ==
  {u \in AllUids : IndexOf(room.activeTurnOrderUids, u) # -1 /\ IsOnlinePlayer(players[u])}

\* C16: once fewer than two online players are left in activeTurnOrderUids of
\* an active room, the game is over no later than the next advance: the answer
\* of the user whose turn it is to the current question, the event that
\* advances the game, ends it and hands nobody a further turn.
C16_TooFewPlayersEndsGame ==
  [][\A a \in AnswerChoices :
       (/\ Active
        /\ Cardinality(OnlinePlayersInOrder) < 2
        /\ room.currentTurnUid \in Users
        /\ SubmitAnswer(room.currentTurnUid, StringOf(room.currentQuestionDbIndex), a))
         => room'.exists /\ room'.state = "ended"]_vars

C18_UpdateSettingsAllOrNothing ==
  [][\/ room' = room
     \/ \A u \in Users, settingsToUpdate \in SettingsPatches :
          ~(/\ room.exists
            /\ room.hostUid # u \/ room.state # "waiting" \/ SomeOutOfRange(settingsToUpdate)
            /\ UpdateSettings(u, settingsToUpdate))]_vars

\* The host's request with a good field next to a bad one was refused, and
\* the room still has the settings it was created with.
C18_Witness ==
  /\ hist.settingsRejected
  /\ room.exists /\ room.state = "waiting"
  /\ room.gameSettings = createRoomSettings

\* C19: the gameSettings of a room are within bounds in every state, whether
\* they come from createRoom, from room:updateSettings or from the settings
\* of a game:start request.
C19_SettingsWithinBounds ==
  room.exists =>
    /\ room.gameSettings.questionsPerPlayer \in 1..20
    /\ room.gameSettings.turnTimeoutSec \in 5..60
    /\ room.gameSettings.stealTimeoutSec \in 3..30
    /\ room.gameSettings.bonusForSteal \in 0..5

ExistingCodes ==
  (IF room.exists THEN <<room.code>> ELSE <<>>) \o otherRooms

\* C20: no two existing rooms have the same 6-character code, after any
\* sequence of createRoom calls.
C20_CodesUnique ==
  \A i, j \in 1..Len(ExistingCodes) : i # j => ExistingCodes[i] # ExistingCodes[j]

\* C21: once the last participant has left and the room is deleted, nothing
\* the room owned is left: no question record and no player record.
C21_DeleteCascades ==
  ~room.exists => questions = <<>> /\ Members(players) = {}

Remaining(u) == Members(players) \ {u}

Earliest(S) == {v \in S : \A x \in S : players[v].joinOrder <= players[x].joinOrder}

\* Who may follow the host u: the first in joinOrder of the online players,
\* else of the players, else of the online spectators, else of all who remain.
HostCandidates(u) ==
  LET onlinePlayers == {v \in Remaining(u) : players[v].online /\ players[v].role = "player"}
      anyPlayers == {v \in Remaining(u) : players[v].role = "player"}
      onlineSpectators ==
        {v \in Remaining(u) : players[v].online /\ players[v].role = "spectator"}
  IN IF onlinePlayers # {} THEN Earliest(onlinePlayers)
     ELSE IF anyPlayers # {} THEN Earliest(anyPlayers)
     ELSE IF onlineSpectators # {} THEN Earliest(onlineSpectators)
     ELSE Earliest(Remaining(u))

\* The host u leaves, by leaveRoom or by a disconnect in the lobby, and
\* participants remain.
HostLeaves(u) ==
  /\ room.exists /\ room.hostUid = u
  /\ Remaining(u) # {}
  /\ LeaveRoom(u) \/ (room.state # "active" /\ Disconnect(u))

\* C22: when the host leaves and participants remain, the new host is the
\* first in joinOrder of the online players, else of the players, else of the
\* online spectators, else of the remaining participants; it is a remaining
\* participant, never the leaver, and has role player afterwards.
C22_HostMigration ==
  [][\A u \in Users :
       HostLeaves(u) =>
         /\ room'.exists
         /\ room'.hostUid \in HostCandidates(u)
         /\ room'.hostUid # u
         /\ players'[room'.hostUid].exists
         /\ players'[room'.hostUid].role = "player"]_vars

\* Alice (1), Bob (2) and Carol (3) were in the waiting room, Alice has left
\* and Bob is the host.
C22_Witness ==
  /\ room.exists /\ room.state = "waiting" /\ room.hostUid = 2
  /\ Members(players) = {2, 3}
  /\ players[2].joinOrder < players[3].joinOrder

\* A spectator became host and player.
C22_WitnessPromoted ==
  /\ room.exists /\ room.hostUid = 3 /\ Members(players) = {3}
  /\ players[3].role = "player" /\ ~players[3].online

\* C23: a submitAnswer or submitSteal that the service rejects with an error
\* is reported in the caller's acknowledgement only: the handler emits no
\* event to the room.
C23_RejectionNotBroadcast ==
  hist.reply.status = "error" => hist.reply.events = {}

\* C24: a submitAnswer of the player whose turn it is, with a questionId that
\* is not the id of the question at currentQuestionDbIndex, is dropped: the
\* acknowledgement carries noActionTaken, and the room, the scores and the
\* timers stay as they were.
C24_MismatchedQuestionDropped ==
  hist.reply.op = "submitAnswer" /\ hist.reply.onTurn /\ hist.reply.mismatch
    => hist.reply.noActionTaken /\ ~hist.reply.changed

\* C25: the votes make playAgainRequest call startGame only for an ended room.
C25_QuorumStartsOnlyEndedRoom ==
  hist.quorumFrom \in {"none", "ended"}

\* C26: every round of voting is closed: once there are votes, the vote set is
\* cleared again, by the start of a game, by the voters' disconnects or by the
\* voting timer.
C26_VotingRoundCloses ==
  (playAgain.votes # {}) ~> (playAgain.votes = {})

\* The start of the scenarios: a game of n players, users 1..n in joinOrder,
\* all online, at question 0 with user 1 to answer and no score yet.
ScenarioStart(n) ==
  /\ Active
  /\ room.activeTurnOrderUids = [i \in 1..n |-> i]
  /\ \A u \in 1..n : players[u].exists /\ players[u].online /\ players[u].score = 0
  /\ room.currentQuestionDbIndex = 0 /\ room.currentQuestionDbIndex + 1 < room.questionCount
  /\ room.currentTurnUid = 1 /\ room.currentPlayerIndexInOrder = 0
  /\ room.currentStealAttempt = NoSteal

\* C27: scenario S1, Alice (1) and Bob (2): Alice's correct answer to Q0
\* gives Alice the score 1 and passes the turn to Bob on Q1, from where the
\* scenario runs on to the final scores 2 and 2.
C27_ScenarioS1 ==
  [][ScenarioStart(2) /\ hist.correctSubmits = 0
       /\ SubmitAnswer(1, StringOf(0), questions[1])
       => /\ players'[1].score = 1
          /\ room'.currentTurnUid = 2 /\ room'.currentQuestionDbIndex = 1]_vars

\* C28: scenario S2, Alice (1), Bob (2) and Carol (3), nobody answers Q0:
\* the turn timer that is to fire for Alice on Q0 is armed.
C28_ScenarioS2 ==
  ScenarioStart(3) => timers.turn = [uid |-> 1, qid |-> StringOf(0)]

\* C29: an active room ends, or is gone, in the end, with no client answering:
\* the timers drive the game.
C29_TimersEndTheGame ==
  Active ~> ~Active

\* C30: when startGame has made its writes the room is active at question 0,
\* questionCount is the number of online players times questionsPerPlayer,
\* the turn order holds exactly the users who were online with role player,
\* in ascending joinOrder, the first of them has the turn at index 0, no
\* steal is in progress and each of them has score 0.
C30_StartGameState ==
  hist.started.done =>
    LET order == room.activeTurnOrderUids IN
    /\ room.exists /\ room.state = "active"
    /\ room.currentQuestionDbIndex = 0
    /\ room.questionCount =
          Cardinality(hist.started.participants) * room.gameSettings.questionsPerPlayer
    /\ {order[i] : i \in 1..Len(order)} = hist.started.participants
    /\ Len(order) = Cardinality(hist.started.participants)
    /\ \A i, j \in 1..Len(order) :
          i < j => players[order[i]].joinOrder <= players[order[j]].joinOrder
    /\ room.currentTurnUid = order[1]
    /\ room.currentPlayerIndexInOrder = 0
    /\ room.currentStealAttempt = NoSteal
    /\ \A i \in 1..Len(order) : players[order[i]].score = 0

\* A game started while an offline user and a spectator were in the room.
C30_Witness ==
  /\ hist.started.done
  /\ \E v \in Members(players) : ~players[v].online
  /\ \E v \in Members(players) : players[v].role = "spectator"

\* C31: an active room has exactly one armed timer, the one of its phase: the
\* turn timer for currentTurnUid and the current question when no steal is in
\* progress, the steal timer for the stealer and the current question when
\* one is; a room that is not active has no armed timer.
C31_OneTimerPerPhase ==
  /\ Active /\ room.currentStealAttempt = NoSteal =>
        /\ timers.turn = [uid |-> room.currentTurnUid,
                          qid |-> StringOf(room.currentQuestionDbIndex)]
        /\ timers.steal = NoTimer
  /\ Active /\ room.currentStealAttempt # NoSteal =>
        /\ timers.steal = [uid |-> room.currentStealAttempt.stealerUid,
                           qid |-> StringOf(room.currentQuestionDbIndex)]
        /\ timers.turn = NoTimer
  /\ ~Active => timers = NoTimers

\* Where the scan of the last search began: the index of startAfterUid in the
\* turn order, or currentPlayerIndexInOrder when startAfterUid is not in it.
ScanBase ==
  IF \E i \in 1..Len(room.activeTurnOrderUids) :
       room.activeTurnOrderUids[i] = hist.found.startAfterUid
  THEN (CHOOSE i \in 1..Len(room.activeTurnOrderUids) :
          room.activeTurnOrderUids[i] = hist.found.startAfterUid) - 1
  ELSE room.currentPlayerIndexInOrder

\* The uid at the d-th position of the cyclic scan.
Scanned(d) ==
  room.activeTurnOrderUids[((ScanBase + d) % Len(room.activeTurnOrderUids)) + 1]

OnlinePlayerUid(u) == players[u].exists /\ players[u].online /\ players[u].role = "player"

\* C32: findNextOnlinePlayerInFixedOrder returns the first position of the
\* cyclic scan after startAfterUid, over at most n positions, that holds an
\* online player, and none exactly when the turn order holds no online
\* player.
C32_FindNextOnlinePlayer ==
  hist.found.done =>
    LET order == room.activeTurnOrderUids
        n == Len(order)
    IN IF \A i \in 1..n : ~OnlinePlayerUid(order[i])
       THEN hist.found.nextPlayerUid = NULL /\ hist.found.nextPlayerIndexInOrder = -1
       ELSE \E d \in 1..n :
              /\ hist.found.nextPlayerIndexInOrder = (ScanBase + d) % n
              /\ hist.found.nextPlayerUid = Scanned(d)
              /\ OnlinePlayerUid(Scanned(d))
              /\ \A e \in 1..(d - 1) : ~OnlinePlayerUid(Scanned(e))

\* A search that passed an offline user and a spectator and wrapped around
\* the end of the order.
C32_Witness ==
  /\ hist.found.done /\ Len(room.activeTurnOrderUids) = 3
  /\ hist.found.startAfterUid = room.activeTurnOrderUids[2]
  /\ ~players[room.activeTurnOrderUids[3]].online
  /\ hist.found.nextPlayerIndexInOrder = 0

\* The online players other than u that follow u in the rotation, each with
\* its distance from u.
FollowersOf(u) ==
  LET order == room.activeTurnOrderUids
      n == Len(order)
      at == CHOOSE i \in 1..n : order[i] = u
  IN {d \in 1..(n - 1) : OnlinePlayerUid(order[((at - 1 + d) % n) + 1])}

FollowerAt(u, d) ==
  LET order == room.activeTurnOrderUids
      at == CHOOSE i \in 1..Len(order) : order[i] = u
  IN order[((at - 1 + d) % Len(order)) + 1]

\* C33: after a wrong answer of the turn-taker, with allowSteal and another
\* online player in the rotation, currentStealAttempt names the next online
\* player after the turn-taker for the same question and currentTurnUid is
\* still the turn-taker; without allowSteal, or without such a player, no
\* steal attempt is recorded and the game has gone on to the next question.
C33_StealerIsNextOnlinePlayer ==
  /\ hist.reply.op = "submitAnswer" /\ hist.reply.onTurn
  /\ ~hist.reply.mismatch /\ hist.reply.wrong
  /\ \E i \in 1..Len(room.activeTurnOrderUids) : room.activeTurnOrderUids[i] = hist.reply.uid
  => IF room.gameSettings.allowSteal /\ FollowersOf(hist.reply.uid) # {}
     THEN /\ Active
          /\ room.currentStealAttempt =
                [stealerUid |-> FollowerAt(hist.reply.uid, MinOf(FollowersOf(hist.reply.uid))),
                 questionDbIndex |-> hist.reply.index]
          /\ room.currentTurnUid = hist.reply.uid
     ELSE /\ room.currentStealAttempt = NoSteal
          /\ Ended \/ room.currentQuestionDbIndex = hist.reply.index + 1

\* C36: a submitAnswer from a user who is not currentTurnUid, and a submitSteal
\* from a user who is not the stealer or with no steal in progress, is
\* rejected (with an error in an active room, as a request without effect
\* otherwise) and leaves the room, the scores and the timers as they were.
C36_ForeignSubmissionRejected ==
  \/ hist.reply.op = "submitAnswer" /\ ~hist.reply.onTurn
  \/ hist.reply.op = "submitSteal" /\ ~hist.reply.isStealer
  => /\ ~hist.reply.changed
     /\ IF hist.reply.active THEN hist.reply.status = "error" ELSE hist.reply.noActionTaken

\* An online player of the running game has answered out of turn.
C36_Witness ==
  /\ hist.reply.op = "submitAnswer" /\ hist.reply.active /\ ~hist.reply.onTurn
  /\ Active /\ OnlinePlayerUid(hist.reply.uid)
  /\ \E i \in 1..Len(room.activeTurnOrderUids) : room.activeTurnOrderUids[i] = hist.reply.uid
  /\ ~hist.reply.mismatch /\ ~hist.reply.wrong

\* What a disconnect of u leaves in place in an active room: u's record with
\* its score, marked offline, and the turn order; and outside an active room:
\* no record of u.
DisconnectKeeps(u) ==
  /\ Active /\ players[u].exists /\ players[u].online =>
        /\ players'[u] = [players[u] EXCEPT !.online = FALSE]
        /\ room'.exists /\ room'.activeTurnOrderUids = room.activeTurnOrderUids
  /\ ~Active /\ players[u].exists => ~players'[u].exists

\* C37: a disconnect of an online participant of an active room marks the
\* participant offline and keeps the record, the score and the turn order;
\* when the participant had the turn, the turn timeout is applied at once and
\* the game has moved on: a steal is offered, the next question is up, or the
\* game is over.  A disconnect from a room that is not active deletes the
\* record.
C37_DisconnectMovesOn ==
  [][\A u \in Users :
       room.exists /\ inSock[u] /\ Disconnect(u) =>
         /\ DisconnectKeeps(u)
         /\ Active /\ players[u].exists /\ players[u].online /\ room.currentTurnUid = u =>
               \/ room'.state = "ended"
               \/ room'.currentStealAttempt # NoSteal
               \/ room'.currentQuestionDbIndex = room.currentQuestionDbIndex + 1]_vars

C39_LeaverTurnPasses ==
  [][\A u \in Users :
       /\ Active /\ room.currentTurnUid = u
       /\ room.currentStealAttempt = NoSteal
       /\ \E i \in 1..Len(room.activeTurnOrderUids) : room.activeTurnOrderUids[i] = u
       /\ room.currentQuestionDbIndex + 1 < room.questionCount
       /\ Cardinality(FollowersOf(u)) >= 2
       /\ LeaveRoom(u)
       => /\ room'.state = "active"
          /\ \/ room'.currentTurnUid = FollowerAt(u, MinOf(FollowersOf(u)))
             \/ room'.currentStealAttempt.stealerUid = FollowerAt(u, MinOf(FollowersOf(u)))]_vars

\* No steal is ever offered: submitAnswer stops at getQuestion for the
\* question at index 0, before it records a steal attempt.
StealNeverOffered == room.currentStealAttempt = NoSteal

\* No reachable state has an armed timer: every path to scheduleGameTimeout
\* passes getQuestion for the question at index 0 first.
TimersNeverArmed == timers = NoTimers
====
